---- MODULE Spec2Model ----
(***************************************************************************)
(* Model of the rendering core of nerf-edge-kit: the stratified sampler,   *)
(* the importance sampler and the volume integrators of NerfModel          *)
(* (models/nerf.py) and InstantNGP (models/instant_ngp.py).                *)
(*                                                                         *)
(* Numbers.  Tensors hold float32 values; the model holds fixed-point      *)
(* integers.  Probabilities, alphas, transmittances, weights and colour    *)
(* channels are multiples of 1/ONE.  Distances and coordinates are         *)
(* integers in a unit of 1/120 world unit, so that near = 0.2 is 24 and    *)
(* far = 6.0 is 720.  Products are truncated to the grid.  One ray is      *)
(* modelled per call, except in the section on ray batches, where the      *)
(* batch axis, the flattening and the reshaping of forward are explicit.   *)
(***************************************************************************)
EXTENDS Integers, Sequences, FiniteSets, TLC

\* ------------------------------------------------------------------ bounds
\* Largest per-ray sample count of a call (num_samples, num_coarse).
MaxSamples == 3
\* Largest fine sample count of a hierarchical_sample call (num_fine).
MaxFine == 2

\* --------------------------------------------------------------- constants
\* The float 1.0 on the fixed-point grid.
ONE == 4096
\* The sentinel 1e10 closing the last interval: large enough that every
\* non-zero density of the grid saturates alpha to exactly 1, as
\* exp(-1e10 * sigma) underflows to 0 in float32.
BigDist == 1000000
\* density * distance per factor 1/2 of exp(-density * distance): ln 2 in the
\* units of the grid.
HalfLife == 60
\* 1e-10, the term added to (1 - alpha) before the cumulative product.  It is
\* below the grid's resolution 1/ONE and, for every non-zero (1 - alpha) of
\* the grid, below half a float32 ulp of it: it rounds away.
Eps10 == 0
\* 1e-5, the floor added to every weight by _sample_pdf, rounded up to the
\* grid (1/ONE is about 2.4e-4).
Eps5 == 1

\* ---------------------------------------------------------------- helpers
RECURSIVE SumTo(_, _)
\* sum of f[1..n]
SumTo(f, n) == IF n = 0 THEN 0 ELSE f[n] + SumTo(f, n - 1)

Sum(f) == SumTo(f, Len(f))

RECURSIVE Pow2(_)
Pow2(k) == IF k = 0 THEN 1 ELSE 2 * Pow2(k - 1)

Min(a, b) == IF a < b THEN a ELSE b
Max(a, b) == IF a > b THEN a ELSE b
Abs(x) == IF x < 0 THEN 0 - x ELSE x

\* fixed-point product of two grid values
Mul(a, b) == (a * b) \div ONE

\* torch.exp(-x) for x = density * distance >= 0: exact at whole numbers of
\* half-lives, linear in between, 0 once below the grid's resolution.
\* A negative x (descending distances) gives a value above 1, capped at 2.
ExpNeg(x) ==
    IF x < 0 THEN ONE * Pow2(Min((0 - x) \div HalfLife, 1))
    ELSE LET k == Min(x \div HalfLife, 20)
             f == x % HalfLife
             hi == ONE \div Pow2(k)
             lo == ONE \div Pow2(k + 1)
         IN  IF k >= 20 THEN 0 ELSE hi - ((hi - lo) * f) \div HalfLife

\* Linspace returning the midpoints of n equal-width bins instead.
LinspaceMidpoints(near, far, n) ==
    [i \in 1..n |-> near + ((2 * i - 1) * (far - near)) \div (2 * n)]

\* torch.linspace(start, end, steps): steps = 1 gives [start].
Linspace(near, far, n) ==
    [i \in 1..n |-> IF n = 1 THEN near
                    ELSE near + ((i - 1) * (far - near)) \div (n - 1)]

\* ScaleNoise without the division by num_samples: a jitter as wide as the
\* whole range.
ScaleNoiseUndivided(r, near, far, n) ==
    [i \in 1..n |-> (r[i][1] * (far - near)) \div r[i][2]]

\* torch.rand_like(t) * (far - near) / num_samples, for the draw r[i] in [0,1)
\* given as <<numerator, denominator>>.
ScaleNoise(r, near, far, n) ==
    [i \in 1..n |-> (r[i][1] * (far - near)) \div (r[i][2] * n)]

\* F.normalize(d): d / max(|d|, 1e-12).  For the axis-aligned directions of
\* the model this is the vector of signs; the zero vector stays zero.
Sign(x) == IF x > 0 THEN 1 ELSE IF x < 0 THEN -1 ELSE 0
Normalize(d) == [c \in 1..3 |-> Sign(d[c])]

\* ray_origins + ray_directions_norm * t
PointAt(o, dn, t) == [c \in 1..3 |-> o[c] + dn[c] * t]

\* SamplePositions with the samples in descending order of distance.
SamplePositionsReversed(o, dn, t) ==
    [i \in 1..Len(t) |-> PointAt(o, dn, t[Len(t) + 1 - i])]

SamplePositions(o, dn, t) == [i \in 1..Len(t) |-> PointAt(o, dn, t[i])]

\* ------------------------------------------------------------- integrators
\* dists = t[1:] - t[:-1], then one 1e10 appended by
\* torch.full_like(dists[..., :1], 1e10): with a single sample dists is empty,
\* so is dists[..., :1], and nothing is appended.
Dists(t) ==
    LET n == Len(t)
    IN  IF n <= 1 THEN << >>
        ELSE [i \in 1..n |-> IF i < n THEN t[i + 1] - t[i] ELSE BigDist]

\* alpha = 1.0 - torch.exp(-densities * dists); the product broadcasts to the
\* length of dists.
Alphas(densities, dists) ==
    [i \in 1..Len(dists) |-> ONE - ExpNeg(densities[i] * dists[i])]

RECURSIVE CumProdGrowing(_, _)
\* CumProd multiplying by (1 + alpha) instead of (1 - alpha).
CumProdGrowing(alpha, i) ==
    IF i = 1 THEN ONE
    ELSE Mul(CumProdGrowing(alpha, i - 1), ONE + alpha[i - 1] + Eps10)

RECURSIVE CumProd(_, _)
\* entry i of torch.cumprod(cat([1, 1 - alpha + 1e-10]))[..., :-1]
CumProd(alpha, i) ==
    IF i = 1 THEN ONE
    ELSE Mul(CumProd(alpha, i - 1), ONE - alpha[i - 1] + Eps10)

\* NerfModel._compute_sample_weights (inherited unchanged by InstantNGP)
ComputeSampleWeights(densities, t) ==
    LET alpha == Alphas(densities, Dists(t))
    IN  [i \in 1..Len(alpha) |-> Mul(alpha[i], CumProd(alpha, i))]

\* rgb = sum(weights[..., None] * colors, dim=-2), one value per channel; the
\* product broadcasts to the length of weights.
Accumulate(weights, colors) ==
    [c \in 1..3 |-> Sum([i \in 1..Len(weights) |-> Mul(weights[i], colors[i][c])])]

\* if self.scene.config.use_white_background: rgb = rgb + (1.0 - acc_alpha)
Composite(rgb, acc, white) ==
    IF white THEN [c \in 1..3 |-> rgb[c] + (ONE - acc)] ELSE rgb

\* NerfModel.volume_render
VolumeRender(colors, densities, t, white) ==
    LET alpha == Alphas(densities, Dists(t))
        transmittance == [i \in 1..Len(alpha) |-> CumProd(alpha, i)]
        weights == [i \in 1..Len(alpha) |-> Mul(alpha[i], transmittance[i])]
        acc == Sum(weights)
    IN  [raised |-> FALSE, alpha |-> alpha, transmittance |-> transmittance,
         weights |-> weights, acc |-> acc,
         rgb |-> Composite(Accumulate(weights, colors), acc, white)]

\* 0.99, the accumulated alpha above which a ray is terminated.
EarlyTerm == (99 * ONE) \div 100

\* The transmittance loop of InstantNGP.volume_render_optimized.  Its body
\* ends in an unconditional break, so it runs for i = 0 only: the update
\* "if i > 0" never executes, accumulated_alpha is still its initial 0 when the
\* mask is taken, and transmittance keeps its initial ones.
LoopTransmittance(alpha) ==
    LET accumulated_alpha == 0
        early_term_mask == accumulated_alpha > EarlyTerm
    IN  [i \in 1..Len(alpha) |-> IF early_term_mask THEN 0 ELSE ONE]

\* InstantNGP.volume_render_optimized.  alpha[..., 0] raises IndexError when
\* alpha is empty (a single sample).
VolumeRenderOptimized(colors, densities, t, white) ==
    LET alpha == Alphas(densities, Dists(t))
        transmittance == LoopTransmittance(alpha)
        weights == [i \in 1..Len(alpha) |-> Mul(alpha[i], transmittance[i])]
        acc == Sum(weights)
    IN  IF Len(alpha) = 0
        THEN [raised |-> TRUE, alpha |-> alpha, transmittance |-> << >>,
              weights |-> << >>, acc |-> 0, rgb |-> <<0, 0, 0>>]
        ELSE [raised |-> FALSE, alpha |-> alpha, transmittance |-> transmittance,
              weights |-> weights, acc |-> acc,
              rgb |-> Composite(Accumulate(weights, colors), acc, white)]

\* the integrator forward calls, by model class
Integrate(k, colors, densities, t, white) ==
    IF k = "ngp" THEN VolumeRenderOptimized(colors, densities, t, white)
    ELSE VolumeRender(colors, densities, t, white)

\* ------------------------------------------------------- model construction
\* ModelConfig, the fields the constructors read and hashmap_size: the
\* defaults, and the values of the test's configuration (hashmap_size 2**14).
ModelConfigs ==
    [hashmap_size : {Pow2(14), Pow2(19)}, log2_hashmap_size : {14, 19},
     network_width : {64}, direction_encoding_levels : {4},
     use_viewdirs : BOOLEAN]

DefaultModelConfig ==
    [hashmap_size |-> Pow2(19), log2_hashmap_size |-> 19, network_width |-> 64,
     direction_encoding_levels |-> 4, use_viewdirs |-> TRUE]

\* SphericalHarmonicsEncoding.__init__: output_dim
ShOutputDim(degree) == (degree + 1) * (degree + 1)

\* PositionalEncoding.__init__: output_dim, with include_input
PositionalOutputDim(input_dim, num_levels) ==
    input_dim + 2 * input_dim * num_levels

\* The geometry features the sigma network returns beside the density.
GeoFeatures == 15
\* The degree InstantNGP builds its direction encoder with.
ShDegree == 4

\* InstantNGP.__init__: the size of the hash table it allocates and the
\* widths it builds the colour network's first layer from.
InstantNGPInit(cfg) ==
    LET dir_width == ShOutputDim(ShDegree)
    IN  [hashmap_size |-> Pow2(cfg.log2_hashmap_size),
         feature_width |-> GeoFeatures,
         dir_width |-> dir_width,
         color_input_dim |-> IF cfg.use_viewdirs THEN GeoFeatures + dir_width
                             ELSE GeoFeatures]

\* NerfModel.__init__: no hash table
NerfModelInit(cfg) ==
    LET dir_width == PositionalOutputDim(3, cfg.direction_encoding_levels)
    IN  [hashmap_size |-> 0,
         feature_width |-> cfg.network_width,
         dir_width |-> dir_width,
         color_input_dim |-> IF cfg.use_viewdirs
                             THEN cfg.network_width + dir_width
                             ELSE cfg.network_width]

BuildModel(k, cfg) == IF k = "ngp" THEN InstantNGPInit(cfg) ELSE NerfModelInit(cfg)

\* no encoder object constructed on its own
NoEncoder == [class |-> "none"]
NoTrainer == [pc |-> "none"]
NoExporter == [pc |-> "none"]

\* ------------------------------------------------------------------ state
VARIABLES
    kind,        \* the model's class: "nerf" (NerfModel) or "ngp" (InstantNGP)
    training,    \* nn.Module.training
    whiteBg,     \* scene.config.use_white_background
    bgColor,     \* scene.config.background_color
    bounds,      \* scene.bounds, <<min, max>> of every axis
    sigmaField,  \* the density head's output, by cell of space (ParameterBlob)
    colorField,  \* the colour head's output, by cell of space (ParameterBlob)
    call,        \* the last call: its arguments, its draws and what it computed
    again,       \* a second call made to compare with the last one, or NoCall
    modelConfig, \* the ModelConfig the model was constructed from
    built,       \* what the model's constructor built: table size, layer widths
    encoder,     \* an encoder object constructed on its own, or NoEncoder
    trainer,     \* a NerfTrainer and the position of its train() call, or NoTrainer
    exporter     \* a create_deployment_package call of a ModelExporter, or NoExporter

vars == <<kind, training, whiteBg, bgColor, bounds, sigmaField, colorField,
          call, again, modelConfig, built, encoder, trainer, exporter>>

\* the model, its scene and the calls on it
render == <<kind, training, whiteBg, bgColor, bounds, sigmaField, colorField,
            call, again, modelConfig, built, encoder>>

config == <<kind, whiteBg, bgColor, bounds, sigmaField, colorField,
            modelConfig, built, encoder, trainer, exporter>>

\* ----------------------------------------------------------------- inputs
Kinds == {"nerf", "ngp"}
\* colours: black, white, and a mixed one
Black == <<0, 0, 0>>
White == <<ONE, ONE, ONE>>
Mixed == <<ONE, ONE \div 2, 0>>
\* densities a decoder returns: empty, thin, opaque
Sigmas == {0, 1, 30}
Cells == 0..1
\* ray origins and (unnormalised, axis-aligned) directions
Origins == {<<0, 0, 0>>, <<0, 0, -240>>}
Directions == {<<0, 0, 1>>, <<0, -3, 0>>}
\* <<near, far>>: the defaults 0.2 and 6.0, and shorter ranges
NearFars == {<<24, 720>>, <<0, 120>>}
\* scene bounds: the default [-1, 1]^3 and the tight [-0.5, 0.5]^3
DefaultBounds == <<-120, 120>>
TightBounds == <<-60, 60>>
\* draws of torch.rand, in [0, 1), as <<numerator, denominator>>
Rands == {<<0, 1>>, <<1, 2>>, <<7, 8>>}
\* the two extreme ones
EdgeRands == {<<0, 1>>, <<7, 8>>}
\* the same draws on the fixed-point grid
Quantiles == {0, ONE \div 2, ONE - 1}

Seqs(S, n) == [1..n -> S]

\* The cell of space a position lies in.  The decoders are functions of the
\* position alone (the parameters are fixed during a call), taken here constant
\* on slabs one world unit thick.
Cell(p) == ((p[1] + p[2] + p[3]) \div 120) % 2

NoCall == [op |-> "none"]

\* ---------------------------------------------------------------- sampling
\* InstantNGP._adaptive_sampling
AdaptiveSampling(near, far, n, train, r) ==
    IF train
    THEN LET t_vals == Linspace(near, far, n)
             noise == ScaleNoise(r, near, far, n)
         IN  [i \in 1..n |-> t_vals[i] + noise[i]]
    ELSE Linspace(near, far, n)

\* The sampling of NerfModel.forward and of NerfModel.hierarchical_sample.
NerfSampling(near, far, n, train, r) ==
    LET t_vals == Linspace(near, far, n)
        noise == ScaleNoise(r, near, far, n)
    IN  IF train THEN [i \in 1..n |-> t_vals[i] + noise[i]] ELSE t_vals

\* CoarseSampling adding the jitter in either mode.
CoarseSamplingJittered(k, near, far, n, train, r) ==
    LET t_vals == Linspace(near, far, n)
        noise == ScaleNoise(r, near, far, n)
    IN  [i \in 1..n |-> t_vals[i] + noise[i]]

\* the coarse sampling of forward and hierarchical_sample, by model class
CoarseSampling(k, near, far, n, train, r) ==
    IF k = "ngp" THEN AdaptiveSampling(near, far, n, train, r)
    ELSE NerfSampling(near, far, n, train, r)

\* query_density_features / query_density_geometry, first column
QueryDensity(sf, positions) ==
    [i \in 1..Len(positions) |-> sf[Cell(positions[i])]]

\* query_colors / query_colors_ngp
QueryColors(cf, positions) ==
    [i \in 1..Len(positions) |-> cf[Cell(positions[i])]]

\* ----------------------------------------------------------------- forward
\* NerfModel.forward and InstantNGP.forward, as a function of the arguments
\* and of the draws r of torch.rand_like.
ForwardResult(k, train, white, sf, cf, o, d, near, far, n, r) ==
    LET t_vals == CoarseSampling(k, near, far, n, train, r)
        positions == SamplePositions(o, Normalize(d), t_vals)
        densities == QueryDensity(sf, positions)
        colors == QueryColors(cf, positions)
        out == Integrate(k, colors, densities, t_vals, white)
    IN  [op |-> "forward", o |-> o, d |-> d, near |-> near, far |-> far,
         n |-> n, train |-> train, r |-> r, t |-> t_vals, densities |-> densities,
         colors |-> colors, raised |-> out.raised, alpha |-> out.alpha,
         transmittance |-> out.transmittance, weights |-> out.weights,
         acc |-> out.acc, rgb |-> out.rgb]

\* The draws of torch.rand_like a call makes: none in evaluation mode.
NoiseDraws(train, R, n) == IF train THEN Seqs(R, n) ELSE {[i \in 1..n |-> <<0, 1>>]}

Forward ==
    /\ call = NoCall
    /\ \E o \in Origins, d \in Directions, nf \in NearFars, n \in 1..MaxSamples :
          \E r \in NoiseDraws(training, Rands, n) :
              call' = ForwardResult(kind, training, whiteBg, sigmaField,
                                    colorField, o, d, nf[1], nf[2], n, r)
    /\ again' = NoCall
    /\ UNCHANGED <<config, training>>

\* The caller drops the result of a call: sample sets and render results
\* live for one invocation only, and no call reads what another computed.
Discard ==
    /\ call # NoCall
    /\ call' = NoCall
    /\ again' = NoCall
    /\ UNCHANGED <<config, training>>

\* nn.Module.train() and nn.Module.eval(), between calls
Train ==
    /\ call = NoCall
    /\ training' = TRUE
    /\ UNCHANGED <<config, call, again>>

Eval ==
    /\ call = NoCall
    /\ training' = FALSE
    /\ UNCHANGED <<config, call, again>>

\* After construction: nn.Module starts in training mode.
InitModel ==
    /\ kind \in Kinds
    /\ training = TRUE
    /\ call = NoCall
    /\ again = NoCall
    /\ modelConfig = DefaultModelConfig
    /\ built = BuildModel(kind, modelConfig)
    /\ encoder = NoEncoder
    /\ trainer = NoTrainer
    /\ exporter = NoExporter

InitRender ==
    /\ InitModel
    /\ whiteBg \in BOOLEAN
    /\ bgColor \in {White, Mixed}
    /\ bounds = DefaultBounds
    /\ sigmaField \in [Cells -> Sigmas]
    /\ colorField \in [Cells -> {Black, White}]

NextRender == Forward \/ Discard \/ Train \/ Eval

\* Rendering: construction, then forward calls and mode switches.
SpecRender == InitRender /\ [][NextRender]_vars

\* ------------------------------------------------------ importance sampling
\* torch.searchsorted(cdf, u, right=True): the number of entries <= u
SearchSortedRight(cdf, u) == Cardinality({i \in 1..Len(cdf) : cdf[i] <= u})

\* torch.clamp(x, lo, hi) = min(max(x, lo), hi), also when lo > hi
Clamp(x, lo, hi) == Min(Max(x, lo), hi)

\* torch.gather(s, -1, index) accepts the 0-based indices 0 .. len(s) - 1 and
\* raises on any other
InRange(s, idx) == \A j \in 1..Len(idx) : idx[j] >= 0 /\ idx[j] <= Len(s) - 1

\* NerfModel._sample_pdf (inherited unchanged by InstantNGP), for the draws u
\* of torch.rand, one per requested sample.  Indices are 0-based as in the
\* code.
SamplePdf(t_vals, weights0, u) ==
    LET m == Len(weights0)
        weights == [i \in 1..m |-> weights0[i] + Eps5]
        total == Sum(weights)
        pdf == [i \in 1..m |-> (weights[i] * ONE) \div total]
        \* cat([zeros_like(cdf[..., :1]), cdf]): empty when cdf is empty
        cdf == [i \in 1..(IF m = 0 THEN 0 ELSE m + 1) |->
                    IF i = 1 THEN 0 ELSE SumTo(pdf, i - 1)]
        indices == [j \in 1..Len(u) |-> SearchSortedRight(cdf, u[j])]
        below == [j \in 1..Len(u) |-> Clamp(indices[j] - 1, 0, Len(cdf) - 1)]
        above == [j \in 1..Len(u) |-> Clamp(indices[j], 0, Len(cdf) - 1)]
        ok == /\ InRange(cdf, below) /\ InRange(cdf, above)
              /\ InRange(t_vals, below) /\ InRange(t_vals, above)
        t == [j \in 1..Len(u) |->
                LET cdf_g0 == cdf[below[j] + 1]
                    cdf_g1 == cdf[above[j] + 1]
                    t_g0 == t_vals[below[j] + 1]
                    t_g1 == t_vals[above[j] + 1]
                    denom0 == cdf_g1 - cdf_g0
                    denom == IF denom0 < Eps5 THEN ONE ELSE denom0
                IN  t_g0 + ((((u[j] - cdf_g0) * ONE) \div denom) * (t_g1 - t_g0))
                               \div ONE]
    IN  [raised |-> ~ok, cdf |-> cdf, below |-> below, above |-> above,
         t |-> IF ok THEN t ELSE << >>]

\* NerfModel.hierarchical_sample and InstantNGP.hierarchical_sample, as a
\* function of the arguments, of the draws r of torch.rand_like and of the
\* draws u of torch.rand (num_fine of them).
HierarchicalSampleResult(k, train, sf, o, d, near, far, nc, r, u) ==
    LET t_coarse == CoarseSampling(k, near, far, nc, train, r)
        dn == Normalize(d)
        coarse_samples == SamplePositions(o, dn, t_coarse)
        coarse_densities == QueryDensity(sf, coarse_samples)
        weights == ComputeSampleWeights(coarse_densities, t_coarse)
        pdf == SamplePdf(t_coarse, weights, u)
    IN  [op |-> "hsample", o |-> o, d |-> d, near |-> near, far |-> far,
         n |-> nc, nf |-> Len(u), train |-> train, r |-> r, u |-> u,
         t |-> t_coarse, densities |-> coarse_densities, weights |-> weights,
         cdf |-> pdf.cdf, below |-> pdf.below, above |-> pdf.above,
         raised |-> pdf.raised, tFine |-> pdf.t,
         coarse |-> IF pdf.raised THEN << >> ELSE coarse_samples,
         fine |-> IF pdf.raised THEN << >>
                  ELSE SamplePositions(o, dn, pdf.t)]

HierarchicalSample ==
    /\ call = NoCall
    /\ \E o \in Origins, d \in Directions, nf \in NearFars,
          nc \in 1..MaxSamples, f \in 0..MaxFine :
          \E r \in NoiseDraws(training, EdgeRands, nc), u \in Seqs(Quantiles, f) :
              call' = HierarchicalSampleResult(kind, training, sigmaField,
                                               o, d, nf[1], nf[2], nc, r, u)
    /\ again' = NoCall
    /\ UNCHANGED <<config, training>>

\* A second hierarchical_sample call with the arguments of the last one; its
\* draws are its own.
HierarchicalSampleAgain ==
    /\ call.op = "hsample"
    /\ again = NoCall
    /\ \E r \in NoiseDraws(training, EdgeRands, call.n),
          u \in Seqs(Quantiles, call.nf) :
          again' = HierarchicalSampleResult(kind, training, sigmaField,
                                            call.o, call.d, call.near, call.far,
                                            call.n, r, u)
    /\ UNCHANGED <<config, training, call>>

InitSample ==
    /\ InitModel
    /\ whiteBg = TRUE
    /\ bgColor = White
    /\ bounds \in {DefaultBounds, TightBounds}
    /\ sigmaField \in [Cells -> Sigmas]
    /\ colorField = [c \in Cells |-> White]

NextSample == HierarchicalSample \/ Discard \/ Train \/ Eval

\* Sampling: construction, then hierarchical_sample calls and mode switches.
SpecSample == InitSample /\ [][NextSample]_vars

\* A model switched to evaluation mode and left there.
InitEval ==
    /\ kind \in Kinds
    /\ training = FALSE
    /\ call = NoCall
    /\ again = NoCall
    /\ modelConfig = DefaultModelConfig
    /\ built = BuildModel(kind, modelConfig)
    /\ encoder = NoEncoder
    /\ trainer = NoTrainer
    /\ exporter = NoExporter
    /\ whiteBg = TRUE
    /\ bgColor = White
    /\ bounds = DefaultBounds
    /\ sigmaField \in [Cells -> Sigmas]
    /\ colorField = [c \in Cells |-> White]

NextRepeat == HierarchicalSample \/ HierarchicalSampleAgain \/ Discard

\* Repeated calls in evaluation mode.
SpecRepeat == InitEval /\ [][NextRepeat]_vars

\* --------------------------------------------------------- repeated forward
\* What torch.rand_like would return to a call, whether or not the call asks
\* for it: the generator's state is not the caller's to choose.
GeneratorDraws(n) == Seqs(Rands, n)

\* A second forward call with the arguments of the last one, on the same
\* parameters, at another state of the random generator.
ForwardAgain ==
    /\ call.op = "forward"
    /\ again = NoCall
    /\ \E r \in GeneratorDraws(call.n) :
          again' = ForwardResult(kind, training, whiteBg, sigmaField, colorField,
                                 call.o, call.d, call.near, call.far, call.n, r)
    /\ UNCHANGED <<config, training, call>>

\* A model switched to evaluation mode and left there, of any scene
\* background and any decoder outputs.
InitEvalRender ==
    /\ kind \in Kinds
    /\ training = FALSE
    /\ call = NoCall
    /\ again = NoCall
    /\ modelConfig = DefaultModelConfig
    /\ built = BuildModel(kind, modelConfig)
    /\ encoder = NoEncoder
    /\ trainer = NoTrainer
    /\ exporter = NoExporter
    /\ whiteBg \in BOOLEAN
    /\ bgColor = White
    /\ bounds = DefaultBounds
    /\ sigmaField \in [Cells -> Sigmas]
    /\ colorField \in [Cells -> {Black, White}]

NextRepeatRender == Forward \/ ForwardAgain \/ Discard

\* Repeated forward calls in evaluation mode.
SpecRepeatRender == InitEvalRender /\ [][NextRepeatRender]_vars

\* ------------------------------------------------------- unchecked arguments
\* forward and hierarchical_sample take near, far and the sample count as
\* plain arguments and test none of them: ModelConfig.__post_init__ tests the
\* configuration's near_plane, far_plane and max_samples, which neither method
\* reads.  <<near, far>> with near = far and with near > far:
BadNearFars == {<<120, 120>>, <<720, 24>>}
AnyNearFars == NearFars \cup BadNearFars
\* sample counts from 0.  torch.linspace(near, far, 0) is the empty tensor,
\* on which every later step of both methods is defined.
AnyCounts == 0..MaxSamples

\* forward, on any arguments
ForwardAnyArgs ==
    /\ call = NoCall
    /\ \E o \in Origins, d \in Directions, nf \in AnyNearFars, n \in AnyCounts :
          \E r \in NoiseDraws(training, EdgeRands, n) :
              call' = ForwardResult(kind, training, whiteBg, sigmaField,
                                    colorField, o, d, nf[1], nf[2], n, r)
    /\ again' = NoCall
    /\ UNCHANGED <<config, training>>

\* hierarchical_sample, on any arguments
HierarchicalSampleAnyArgs ==
    /\ call = NoCall
    /\ \E o \in Origins, d \in Directions, nf \in AnyNearFars,
          nc \in AnyCounts, f \in 0..MaxFine :
          \E r \in NoiseDraws(training, EdgeRands, nc), u \in Seqs(Quantiles, f) :
              call' = HierarchicalSampleResult(kind, training, sigmaField,
                                               o, d, nf[1], nf[2], nc, r, u)
    /\ again' = NoCall
    /\ UNCHANGED <<config, training>>

NextArgs == ForwardAnyArgs \/ HierarchicalSampleAnyArgs \/ Discard \/ Train \/ Eval

\* Calls on any arguments: construction, then calls and mode switches.
SpecArgs == InitSample /\ [][NextArgs]_vars

\* ------------------------------------------------- models of any configuration
\* The width of the colour network's input in a forward call: forward passes
\* the directions on only if its use_viewdirs argument and the configuration's
\* are both set, and query_colors / query_colors_ngp concatenate their
\* encoding only if they were passed.
ColorInputWidth(b, cfg, use_viewdirs) ==
    IF use_viewdirs /\ cfg.use_viewdirs THEN b.feature_width + b.dir_width
    ELSE b.feature_width

\* forward with its use_viewdirs argument.  nn.Linear raises RuntimeError on
\* an input whose width is not the in_features it was built with: the call
\* ends in the colour query, after sampling and the density query, before
\* any integration.
ForwardViewdirsResult(k, cfg, b, train, white, sf, cf, o, d, near, far, n, r, uv) ==
    LET width == ColorInputWidth(b, cfg, uv)
        out == ForwardResult(k, train, white, sf, cf, o, d, near, far, n, r)
        args == [use_viewdirs |-> uv, color_input |-> width]
    IN  IF width = b.color_input_dim THEN out @@ args
        ELSE [out EXCEPT !.raised = TRUE, !.colors = << >>, !.alpha = << >>,
                         !.transmittance = << >>, !.weights = << >>,
                         !.acc = 0, !.rgb = <<0, 0, 0>>] @@ args

ForwardViewdirs ==
    /\ call = NoCall
    /\ \E o \in Origins, d \in Directions, nf \in NearFars, n \in 1..MaxSamples,
          use_viewdirs \in BOOLEAN :
          \E r \in NoiseDraws(training, EdgeRands, n) :
              call' = ForwardViewdirsResult(kind, modelConfig, built, training,
                                            whiteBg, sigmaField, colorField, o, d,
                                            nf[1], nf[2], n, r, use_viewdirs)
    /\ again' = NoCall
    /\ UNCHANGED <<config, training>>

\* After construction from any ModelConfig.
InitConfigured ==
    /\ kind \in Kinds
    /\ training = TRUE
    /\ call = NoCall
    /\ again = NoCall
    /\ modelConfig \in ModelConfigs
    /\ built = BuildModel(kind, modelConfig)
    /\ encoder = NoEncoder
    /\ trainer = NoTrainer
    /\ exporter = NoExporter
    /\ whiteBg = FALSE
    /\ bgColor = White
    /\ bounds = DefaultBounds
    /\ sigmaField \in [Cells -> {0, 1}]
    /\ colorField = [c \in Cells |-> White]

NextConfigured == ForwardViewdirs \/ Discard \/ Train \/ Eval

\* Models of any configuration: construction, then forward calls with either
\* value of use_viewdirs, and mode switches.
SpecConfigured == InitConfigured /\ [][NextConfigured]_vars

\* ------------------------------------------------------------ hash encoding
\* Largest level count of a HashEncoding.
MaxLevels == 3
\* level counts handed to the constructor: it tests none
LevelCounts == (0 - 1)..MaxLevels
\* base_resolution and max_resolution, in either order
GridResolutions == {2, 4, 9}
\* log2_hashmap_size; with a negative one 2 ** log2_hashmap_size is a float
\* and torch.randn raises TypeError
Log2Sizes == {0 - 1, 3, 4}
\* initial contents of the table (torch.randn(...) * 1e-4), by seed: one
\* feature vector of feature_dim = 2 per row, no two rows alike
TableSeeds == {1, 2}
HashTable(size, seed) ==
    [i \in 0..(size - 1) |-> <<seed * (i + 1), ((i * i) % 7) - 3 * seed>>]

RECURSIVE Pow(_, _)
Pow(b, e) == IF e <= 0 THEN 1 ELSE b * Pow(b, e - 1)

\* int(base_resolution * growth_factor ** level), where growth_factor is
\* exp((log(max) - log(base)) / (num_levels - 1)).  In exact arithmetic the
\* product is (base^(L-1-level) * max^level)^(1/(L-1)) and int() is its
\* floor v.  The float64 exp, log and ** are accurate to about an ulp, not
\* exact: when the exact product is the integer v, the computed one can fall
\* just below it and int() truncates to v - 1 (below tells which).  Exact in
\* every build: level 0 (x ** 0 is 1.0) and base = max (growth_factor is
\* exp(0.0) = 1.0).
LevelResolution(base, max, num_levels, level, below) ==
    IF level = 0 \/ base = max THEN base
    ELSE LET e == num_levels - 1
             x == Pow(base, e - level) * Pow(max, level)
             v == CHOOSE w \in 0..Max(base, max) :
                     Pow(w, e) <= x /\ x < Pow(w + 1, e)
         IN  IF Pow(v, e) = x /\ below THEN v - 1 ELSE v

\* HashEncoding.__init__.  range(num_levels) is empty for num_levels <= 0.
HashEncodingInit(num_levels, base, max, log2, seed, below) ==
    LET L == Max(num_levels, 0)
    IN  IF log2 < 0
        THEN [class |-> "hash", raised |-> TRUE, num_levels |-> num_levels,
              base_resolution |-> base, max_resolution |-> max,
              hashmap_size |-> 0, resolutions |-> << >>, hash_table |-> << >>]
        ELSE [class |-> "hash", raised |-> FALSE, num_levels |-> num_levels,
              base_resolution |-> base, max_resolution |-> max,
              hashmap_size |-> Pow2(log2),
              resolutions |->
                  [l \in 1..L |->
                      Min(LevelResolution(base, max, num_levels, l - 1, below[l]),
                          max)],
              hash_table |-> HashTable(Pow2(log2), seed)]

RECURSIVE Xor(_, _)
\* a ^ b on non-negative integers
Xor(a, b) ==
    IF a = 0 THEN b
    ELSE IF b = 0 THEN a
    ELSE ((a + b) % 2) + 2 * Xor(a \div 2, b \div 2)

\* The primes 2654435761 and 805459861 of the hash, modulo 2^16.  The table
\* size divides 2^16 and the lattice coordinates are non-negative and small
\* (no int64 product wraps), so the index, hash mod table size, depends on
\* the low 16 bits of each product only.
HashBits == 16
Prime1Low == 31153
Prime2Low == 22421

\* HashEncoding._hash_position
HashPosition(positions, resolution, hashmap_size) ==
    LET c == [a \in 1..3 |-> Clamp(positions[a], 0, resolution - 1)]
        m == Pow2(HashBits)
        hash_val == Xor(Xor(c[1] % m, (c[2] * Prime1Low) % m),
                        (c[3] * Prime2Low) % m)
    IN  hash_val % hashmap_size

\* Positions handed to the encoder, per axis, in units of 1/PosUnit: from
\* -1 to 1.  Interpolation weights are then multiples of 1/(2 * PosUnit).
PosUnit == 2
WeightOne == 2 * PosUnit
EncoderPositions == [1..3 -> (0 - PosUnit)..PosUnit]

\* c * (1 - w) + d * w on feature vectors, the weight w over WeightOne
Lerp(c, d, w) == [f \in 1..2 |-> c[f] * (WeightOne - w) + d[f] * w]

\* TrilinearInterpolate with the x and z neighbours of the corner exchanged.
TrilinearInterpolateSwapped(corner_features, weights) ==
    LET c00 == Lerp(corner_features[1], corner_features[2], weights[1])
        c01 == Lerp(corner_features[5], corner_features[6], weights[1])
        c10 == Lerp(corner_features[3], corner_features[4], weights[1])
        c11 == Lerp(corner_features[7], corner_features[8], weights[1])
        c0 == Lerp(c00, c10, weights[2])
        c1 == Lerp(c01, c11, weights[2])
    IN  Lerp(c0, c1, weights[3])

\* HashEncoding._trilinear_interpolate.  corner_features[1 + 4i + 2j + k] is
\* the feature of the corner at offset (i, j, k).  The result is scaled by
\* WeightOne^3.
TrilinearInterpolate(corner_features, weights) ==
    LET c00 == Lerp(corner_features[1], corner_features[5], weights[1])
        c01 == Lerp(corner_features[2], corner_features[6], weights[1])
        c10 == Lerp(corner_features[3], corner_features[7], weights[1])
        c11 == Lerp(corner_features[4], corner_features[8], weights[1])
        c0 == Lerp(c00, c10, weights[2])
        c1 == Lerp(c01, c11, weights[2])
    IN  Lerp(c0, c1, weights[3])

\* the offsets of the eight corners, in the order the code appends them
CornerOffsets ==
    [n \in 1..8 |-> <<(n - 1) \div 4, ((n - 1) \div 2) % 2, (n - 1) % 2>>]

\* One level of HashEncoding.forward, at a position p.
EncodeLevel(enc, resolution, p) ==
    LET scaled == [a \in 1..3 |-> (p[a] + PosUnit) * (resolution - 1)]
        grid_pos == [a \in 1..3 |-> scaled[a] \div WeightOne]
        weights == [a \in 1..3 |-> scaled[a] - WeightOne * grid_pos[a]]
        corners == [n \in 1..8 |->
                       [a \in 1..3 |-> grid_pos[a] + CornerOffsets[n][a]]]
        hash_idx == [n \in 1..8 |->
                        HashPosition(corners[n], resolution, enc.hashmap_size)]
        corner_features == [n \in 1..8 |-> enc.hash_table[hash_idx[n]]]
    IN  [resolution |-> resolution, grid_pos |-> grid_pos, weights |-> weights,
         hash_idx |-> hash_idx, corner_features |-> corner_features,
         interpolated |-> TrilinearInterpolate(corner_features, weights)]

\* HashEncoding.forward.  torch.cat of an empty list raises RuntimeError.
HashEncode(enc, p) ==
    LET L == Len(enc.resolutions)
    IN  [op |-> "encode", p |-> p, raised |-> L = 0,
         levels |-> [l \in 1..L |-> EncodeLevel(enc, enc.resolutions[l], p)]]

ConstructHashEncoding ==
    /\ encoder = NoEncoder
    /\ call = NoCall
    /\ \E num_levels \in LevelCounts, base \in GridResolutions,
          max \in GridResolutions, log2 \in Log2Sizes, seed \in TableSeeds :
          \E below \in Seqs(BOOLEAN, Max(num_levels, 0)) :
              encoder' = HashEncodingInit(num_levels, base, max, log2, seed, below)
    /\ UNCHANGED <<kind, training, whiteBg, bgColor, bounds, sigmaField,
                   colorField, call, again, modelConfig, built, trainer,
                   exporter>>

\* An encode call on the encoder constructed.
Encode ==
    /\ encoder # NoEncoder
    /\ ~encoder.raised
    /\ call = NoCall
    /\ \E p \in EncoderPositions : call' = HashEncode(encoder, p)
    /\ again' = NoCall
    /\ UNCHANGED <<config, training>>

\* Before any encoder is constructed.
InitEncoder ==
    /\ kind = "ngp"
    /\ training = TRUE
    /\ call = NoCall
    /\ again = NoCall
    /\ modelConfig = DefaultModelConfig
    /\ built = BuildModel(kind, modelConfig)
    /\ encoder = NoEncoder
    /\ trainer = NoTrainer
    /\ exporter = NoExporter
    /\ whiteBg = FALSE
    /\ bgColor = White
    /\ bounds = DefaultBounds
    /\ sigmaField = [c \in Cells |-> 0]
    /\ colorField = [c \in Cells |-> White]

NextHash == ConstructHashEncoding \/ Encode \/ Discard

\* The hash encoder: construction, then encode calls.
SpecHash == InitEncoder /\ [][NextHash]_vars

\* ------------------------------------------------------- direction encoding
\* Largest degree a SphericalHarmonicsEncoding is constructed with.
MaxDegree == 5

\* SphericalHarmonicsEncoding.__init__: any degree is taken as it comes
ShEncodingInit(degree) ==
    [class |-> "sh", raised |-> FALSE, degree |-> degree,
     output_dim |-> ShOutputDim(degree)]

\* Direction vectors handed to the encoder are integers in a unit of a
\* quarter of 1e-12, the eps of F.normalize: vectors shorter than eps, of
\* length eps and longer, and the zero vector.  The lengths are whole numbers.
EpsNorm == 4
DirVectors ==
    {<<0, 0, 0>>, <<1, 0, 0>>, <<0, 2, 0>>, <<0, 0, 0 - 3>>, <<2, 0 - 2, 1>>,
     <<4, 0, 0>>, <<0, 0 - 4, 0>>, <<3, 4, 0>>, <<0, 0 - 3, 4>>, <<0 - 4, 0, 3>>,
     <<4, 4, 0 - 2>>, <<8, 0, 0>>}
\* scalars k > 0
Scales == {2, 8}

\* torch.norm(v, 2): the square root of the sum of squares
Norm(v) ==
    LET ss == v[1] * v[1] + v[2] * v[2] + v[3] * v[3]
    IN  CHOOSE r \in 0..(Abs(v[1]) + Abs(v[2]) + Abs(v[3])) :
            r * r <= ss /\ ss < (r + 1) * (r + 1)

\* NormalizeEps flooring the length at four times eps.
NormalizeCoarse(v) ==
    [c \in 1..3 |-> (v[c] * ONE) \div Max(Norm(v), 4 * EpsNorm)]

\* F.normalize(v, dim=-1): v / max(||v||, eps), on the fixed-point grid
NormalizeEps(v) == [c \in 1..3 |-> (v[c] * ONE) \div Max(Norm(v), EpsNorm)]

\* a coefficient given in units of 1e-5, on the fixed-point grid
Coef(n) == (n * ONE) \div 100000

\* The features SphericalHarmonicsEncoding.forward appends: one of degree 0,
\* then 3, 5, 7 and 9 more if the degree is at least 1, 2, 3, 4.  No degree
\* above 4 appends any.
ShFeatures(degree, d) ==
    LET x == d[1]
        y == d[2]
        z == d[3]
        x2 == Mul(x, x)
        y2 == Mul(y, y)
        z2 == Mul(z, z)
        xy == Mul(x, y)
        yz == Mul(y, z)
        xz == Mul(x, z)
        d0 == <<Coef(28209)>>
        d1 == <<0 - Mul(Coef(48860), y), Mul(Coef(48860), z),
                0 - Mul(Coef(48860), x)>>
        d2 == <<Mul(Coef(109255), xy), 0 - Mul(Coef(109255), yz),
                Mul(Coef(31539), 3 * z2 - ONE), 0 - Mul(Coef(109255), xz),
                Mul(Coef(54627), x2 - y2)>>
        d3 == <<0 - Mul(Coef(59004), Mul(y, 3 * x2 - y2)),
                Mul(Coef(289061), Mul(xy, z)),
                0 - Mul(Coef(45705), Mul(y, 5 * z2 - ONE)),
                Mul(Coef(37318), Mul(z, 5 * z2 - 3 * ONE)),
                0 - Mul(Coef(45705), Mul(x, 5 * z2 - ONE)),
                Mul(Coef(144531), Mul(z, x2 - y2)),
                0 - Mul(Coef(59004), Mul(x, x2 - 3 * y2))>>
        d4 == <<Mul(Coef(250334), Mul(xy, x2 - y2)),
                0 - Mul(Coef(177013), Mul(yz, 3 * x2 - y2)),
                Mul(Coef(94617), Mul(xy, 7 * z2 - ONE)),
                0 - Mul(Coef(66905), Mul(yz, 7 * z2 - 3 * ONE)),
                Mul(Coef(10579), 35 * Mul(z2, z2) - 30 * z2 + 3 * ONE),
                0 - Mul(Coef(66905), Mul(xz, 7 * z2 - 3 * ONE)),
                Mul(Coef(47309), Mul(x2 - y2, 7 * z2 - ONE)),
                0 - Mul(Coef(177013), Mul(xz, x2 - 3 * y2)),
                Mul(Coef(62584), Mul(x2, x2) - 6 * Mul(x2, y2) + Mul(y2, y2))>>
    IN  d0 \o (IF degree >= 1 THEN d1 ELSE << >>)
           \o (IF degree >= 2 THEN d2 ELSE << >>)
           \o (IF degree >= 3 THEN d3 ELSE << >>)
           \o (IF degree >= 4 THEN d4 ELSE << >>)

\* SphericalHarmonicsEncoding.forward: torch.stack(features[:output_dim])
ShEncode(enc, v) ==
    LET directions == NormalizeEps(v)
        features == ShFeatures(enc.degree, directions)
    IN  [op |-> "sh", v |-> v, directions |-> directions, raised |-> FALSE,
         features |-> SubSeq(features, 1, Min(Len(features), enc.output_dim))]

ConstructShEncoding ==
    /\ encoder = NoEncoder
    /\ call = NoCall
    /\ \E degree \in 0..MaxDegree : encoder' = ShEncodingInit(degree)
    /\ UNCHANGED <<kind, training, whiteBg, bgColor, bounds, sigmaField,
                   colorField, call, again, modelConfig, built, trainer,
                   exporter>>

\* An encode call on the direction encoder constructed.
EncodeDirection ==
    /\ encoder # NoEncoder
    /\ call = NoCall
    /\ \E v \in DirVectors : call' = ShEncode(encoder, v)
    /\ again' = NoCall
    /\ UNCHANGED <<config, training>>

\* A second encode call, on the direction of the last one scaled by k > 0.
EncodeDirectionScaled ==
    /\ call.op = "sh"
    /\ again = NoCall
    /\ \E k \in Scales :
          again' = ShEncode(encoder, [c \in 1..3 |-> k * call.v[c]])
    /\ UNCHANGED <<config, training, call>>

NextDirection ==
    ConstructShEncoding \/ EncodeDirection \/ EncodeDirectionScaled \/ Discard

\* The direction encoder: construction, then encode calls.
SpecDirection == InitEncoder /\ [][NextDirection]_vars

\* ------------------------------------------------------------ pipeline stages
\* The stages one forward call runs, in the order of its statements, the same
\* in InstantNGP.forward and NerfModel.forward: the
\* sampler, the position encoder and the density head, the direction encoder
\* and the colour head, and the integrator, each once.
ForwardStages ==
    <<"sample_coarse", "encode_position", "decode_density",
      "encode_direction", "decode_color", "integrate">>

\* The stages of hierarchical_sample: it ends with the sorted merge and
\* returns the distances; it integrates nothing and decodes no colour.
HierarchicalSampleStages ==
    <<"sample_coarse", "encode_position", "decode_density",
      "importance_weights", "sample_fine", "merge_sort">>

\* forward, with the stages it ran and the distances its integrator was given
ForwardTraced ==
    /\ call = NoCall
    /\ \E o \in Origins, d \in Directions, nf \in NearFars, n \in 1..MaxSamples :
          \E r \in NoiseDraws(training, Rands, n) :
              LET res == ForwardResult(kind, training, whiteBg, sigmaField,
                                       colorField, o, d, nf[1], nf[2], n, r)
              IN  call' = res @@ [stages |-> ForwardStages,
                                  integrated |-> res.t]
    /\ again' = NoCall
    /\ UNCHANGED <<config, training>>

\* hierarchical_sample, with the stages it ran
HierarchicalSampleTraced ==
    /\ call = NoCall
    /\ \E o \in Origins, d \in Directions, nf \in NearFars,
          nc \in 1..MaxSamples, f \in 0..MaxFine :
          \E r \in NoiseDraws(training, EdgeRands, nc), u \in Seqs(Quantiles, f) :
              call' = HierarchicalSampleResult(kind, training, sigmaField,
                                               o, d, nf[1], nf[2], nc, r, u)
                      @@ [stages |-> HierarchicalSampleStages]
    /\ again' = NoCall
    /\ UNCHANGED <<config, training>>

NextPipeline == ForwardTraced \/ HierarchicalSampleTraced \/ Discard \/ Train \/ Eval

\* Rendering and importance sampling as two public methods of one model.
SpecPipeline == InitSample /\ [][NextPipeline]_vars

\* -------------------------------------------------------------- ray batches
MaxBatch == 2

\* A batch is a sequence of rays <<origin, direction>>: the rows of the
\* (N, 3) tensors ray_origins and ray_directions.
Rays ==
    {<<<<0, 0, 0>>, <<0, 0, 1>>>>, <<<<0, 0, -240>>, <<0, 0, 1>>>>,
     <<<<0, 0, -240>>, <<0, -3, 0>>>>}
Batches == UNION {[1..b -> Rays] : b \in 1..MaxBatch}

\* sample_positions.reshape(-1, 3): the rows of a (B, S) grid in row-major
\* order, entry (i, j) at (i - 1) * S + j
Flatten(grid, S) ==
    [q \in 1..(Len(grid) * S) |-> grid[((q - 1) \div S) + 1][((q - 1) % S) + 1]]

\* Reshape reading the flat tensor in column-major order.
ReshapeColumnMajor(flat, B, S) ==
    [i \in 1..B |-> [j \in 1..S |-> flat[(j - 1) * B + i]]]

\* flat.reshape(batch_size, num_samples): row i is the i-th run of S entries
Reshape(flat, B, S) ==
    [i \in 1..B |-> [j \in 1..S |-> flat[(i - 1) * S + j]]]

\* forward on a batch: the distances are drawn per ray, the directions are
\* normalised along the last axis, the positions of all rays are flattened
\* into one list for the networks, the network outputs are reshaped to
\* (B, S) and the integrator works along the sample axis of each row.
ForwardBatchResult(k, train, white, sf, cf, rays, near, far, n, rs) ==
    LET B == Len(rays)
        t_vals == [i \in 1..B |-> CoarseSampling(k, near, far, n, train, rs[i])]
        ray_directions_norm == [i \in 1..B |-> Normalize(rays[i][2])]
        sample_positions ==
            [i \in 1..B |-> SamplePositions(rays[i][1], ray_directions_norm[i],
                                            t_vals[i])]
        flat_positions == Flatten(sample_positions, n)
        densities == Reshape(QueryDensity(sf, flat_positions), B, n)
        colors == Reshape(QueryColors(cf, flat_positions), B, n)
        out == [i \in 1..B |->
                   Integrate(k, colors[i], densities[i], t_vals[i], white)]
    IN  [op |-> "batch", rays |-> rays, near |-> near, far |-> far, n |-> n,
         train |-> train, densities |-> densities,
         raised |-> \E i \in 1..B : out[i].raised,
         rgba |-> [i \in 1..B |-> <<out[i].rgb, out[i].acc>>]]

\* forward on a batch of rays
ForwardBatch ==
    /\ call = NoCall
    /\ \E rays \in Batches, nf \in NearFars, n \in 1..MaxSamples :
          \E rs \in [1..Len(rays) -> NoiseDraws(training, Rands, n)] :
              call' = ForwardBatchResult(kind, training, whiteBg, sigmaField,
                                         colorField, rays, nf[1], nf[2], n, rs)
    /\ again' = NoCall
    /\ UNCHANGED <<config, training>>

\* A second forward call with the near, far and sample count of the last
\* one, on any batch.
ForwardBatchAgain ==
    /\ call.op = "batch"
    /\ again = NoCall
    /\ \E rays \in Batches :
          \E rs \in [1..Len(rays) -> NoiseDraws(training, Rands, call.n)] :
              again' = ForwardBatchResult(kind, training, whiteBg, sigmaField,
                                          colorField, rays, call.near, call.far,
                                          call.n, rs)
    /\ UNCHANGED <<config, training, call>>

\* A model in evaluation mode whose decoders tell the two cells apart.
InitBatch ==
    /\ kind \in Kinds
    /\ training = FALSE
    /\ call = NoCall
    /\ again = NoCall
    /\ modelConfig = DefaultModelConfig
    /\ built = BuildModel(kind, modelConfig)
    /\ encoder = NoEncoder
    /\ trainer = NoTrainer
    /\ exporter = NoExporter
    /\ whiteBg = FALSE
    /\ bgColor = White
    /\ bounds = DefaultBounds
    /\ sigmaField \in {[c \in Cells |-> 1],
                       [c \in Cells |-> IF c = 0 THEN 30 ELSE 1]}
    /\ colorField \in {[c \in Cells |-> White],
                       [c \in Cells |-> IF c = 0 THEN Black ELSE White]}

NextBatch == ForwardBatch \/ ForwardBatchAgain \/ Discard

\* Batched forward calls in evaluation mode.
SpecBatch == InitBatch /\ [][NextBatch]_vars

\* ------------------------------------------------- positions out of range
\* Positions inside and outside the scene bounds [-1, 1], per axis in units
\* of 1/PosUnit: -3, -1.5, 0, 1, 1.5 and 3.
AnyCoordinates ==
    {0 - 3 * PosUnit, 0 - PosUnit - 1, 0, PosUnit, PosUnit + 1, 3 * PosUnit}
AnyPositions == [1..3 -> AnyCoordinates]

\* An encode call at any position: forward tests no argument.
EncodeAnywhere ==
    /\ encoder # NoEncoder
    /\ ~encoder.raised
    /\ call = NoCall
    /\ \E p \in AnyPositions : call' = HashEncode(encoder, p)
    /\ again' = NoCall
    /\ UNCHANGED <<config, training>>

NextClamp == ConstructHashEncoding \/ EncodeAnywhere \/ Discard

\* The hash encoder on positions of any range.
SpecClamp == InitEncoder /\ [][NextClamp]_vars

\* ----------------------------------------------------------- parameter blob
\* What a constructed InstantNGP holds between calls: the hash table and the
\* resolutions of its encoder, and the weights of its two decoders (here the
\* functions they compute).
Parameters ==
    [hash_table |-> encoder.hash_table, resolutions |-> encoder.resolutions,
     sigma_network |-> sigmaField, color_network |-> colorField]

\* The parameters after a call that writes through a reference to them.
WrittenInPlace(op, params) ==
    IF op = "encode"
    THEN [params EXCEPT !.hash_table = [i \in DOMAIN @ |-> <<0, 0>>]]
    ELSE [params EXCEPT !.sigma_network = [c \in Cells |-> 0]]

\* The parameters after a render or encode call.  No statement of forward,
\* hierarchical_sample, query_density_geometry, query_colors_ngp or
\* HashEncoding.forward assigns to a parameter or a buffer; the rows of the
\* table are read by index (a copy), and every in-place statement (hash_val
\* ^= ..., transmittance[..., i] = ...) acts on a tensor the call created.
Written(op, params) ==
    params

\* the state after a call that leaves the parameters as q
Store(q) ==
    /\ encoder' = [encoder EXCEPT !.hash_table = q.hash_table,
                                  !.resolutions = q.resolutions]
    /\ sigmaField' = q.sigma_network
    /\ colorField' = q.color_network
    /\ UNCHANGED <<kind, whiteBg, bgColor, bounds, modelConfig, built, training,
                   trainer, exporter>>

\* positions the query methods are given
QueryPositions ==
    {PointAt(o, Normalize(d), t) : o \in Origins, d \in Directions, t \in {0, 120}}

RenderForward ==
    /\ call = NoCall
    /\ \E o \in Origins, d \in Directions, nf \in NearFars, n \in 1..MaxSamples :
          \E r \in NoiseDraws(training, EdgeRands, n) :
              call' = ForwardResult(kind, training, whiteBg, sigmaField,
                                    colorField, o, d, nf[1], nf[2], n, r)
    /\ again' = NoCall
    /\ Store(Written("forward", Parameters))

RenderHierarchicalSample ==
    /\ call = NoCall
    /\ \E o \in Origins, d \in Directions, nf \in NearFars,
          nc \in 1..MaxSamples, f \in 0..MaxFine :
          \E r \in NoiseDraws(training, EdgeRands, nc), u \in Seqs(Quantiles, f) :
              call' = HierarchicalSampleResult(kind, training, sigmaField,
                                               o, d, nf[1], nf[2], nc, r, u)
    /\ again' = NoCall
    /\ Store(Written("hsample", Parameters))

QueryDensityGeometry ==
    /\ call = NoCall
    /\ \E p \in QueryPositions :
          call' = [op |-> "query_density", p |-> p,
                   density |-> QueryDensity(sigmaField, <<p>>)[1]]
    /\ again' = NoCall
    /\ Store(Written("query_density", Parameters))

QueryColorsNgp ==
    /\ call = NoCall
    /\ \E p \in QueryPositions :
          call' = [op |-> "query_colors", p |-> p,
                   colors |-> QueryColors(colorField, <<p>>)[1]]
    /\ again' = NoCall
    /\ Store(Written("query_colors", Parameters))

EncodeRead ==
    /\ call = NoCall
    /\ \E p \in EncoderPositions : call' = HashEncode(encoder, p)
    /\ again' = NoCall
    /\ Store(Written("encode", Parameters))

\* A later encode call at the position of the last one, render and query
\* calls having run in between or not.
EncodeReadAgain ==
    /\ call.op = "encode"
    /\ again = NoCall
    /\ again' = HashEncode(encoder, call.p)
    /\ call' = call
    /\ Store(Written("encode", Parameters))

\* A constructed InstantNGP, its encoder of one level or more.
InitParameters ==
    /\ kind = "ngp"
    /\ training = TRUE
    /\ call = NoCall
    /\ again = NoCall
    /\ modelConfig = DefaultModelConfig
    /\ built = BuildModel(kind, modelConfig)
    /\ encoder \in {HashEncodingInit(L, 2, 4, 3, seed, [l \in 1..L |-> FALSE]) :
                       L \in 1..MaxLevels, seed \in TableSeeds}
    /\ trainer = NoTrainer
    /\ exporter = NoExporter
    /\ whiteBg = FALSE
    /\ bgColor = White
    /\ bounds = DefaultBounds
    /\ sigmaField \in {[c \in Cells |-> 1],
                       [c \in Cells |-> IF c = 0 THEN 30 ELSE 1]}
    /\ colorField = [c \in Cells |-> White]

NextParameters ==
    \/ RenderForward \/ RenderHierarchicalSample \/ QueryDensityGeometry
    \/ QueryColorsNgp \/ EncodeRead \/ EncodeReadAgain \/ Discard \/ Train \/ Eval

\* Render, query and encode calls on one constructed model, in any order.
SpecParameters == InitParameters /\ [][NextParameters]_vars

\* ------------------------------------------------------------------ trainer
MaxEpochs == 3

\* float('inf'), above every loss
Infinity == 1000
\* epoch-average losses
Losses == {1, 2, 4}
\* a local name of train() no statement has assigned yet
Unbound == [bound |-> FALSE]
\* the dictionary {}, the validation metrics without a validation loader
NoMetrics == [bound |-> TRUE, keys |-> {}]
\* the dictionary {'loss': ..., 'psnr': ...} of an epoch
Metrics(loss) == [bound |-> TRUE, keys |-> {"loss", "psnr"}, loss |-> loss]

\* TrainingConfig as far as train() reads it (__post_init__ rejects
\* max_epochs <= 0), and whether the trainer has a validation loader.
TrainingConfigs ==
    [max_epochs : 1..MaxEpochs, save_frequency : {1, 2},
     use_early_stopping : BOOLEAN, patience : {1, 2}, min_delta : {0, 1},
     val_loader : BOOLEAN]

\* NerfTrainer.__init__: the training state, and train() not yet called.
\* losses stands for val_losses with a validation loader and for
\* train_losses without one.
NerfTrainerInit(cfg) ==
    [pc |-> "idle", training_config |-> cfg, epoch |-> 0, e |-> 0,
     best_val_loss |-> Infinity, patience_counter |-> 0,
     train_metrics |-> Unbound, val_metrics |-> Unbound, losses |-> << >>,
     saved |-> {}, final_saved |-> FALSE, writer_closed |-> FALSE, interrupted |-> FALSE,
     stopped_early |-> FALSE, raised |-> FALSE, returned |-> FALSE]

\* val_metrics.get('loss', train_metrics['loss'])
MonitoredLoss(t) ==
    IF "loss" \in t.val_metrics.keys
    THEN t.val_metrics.loss ELSE t.train_metrics.loss

\* _save_checkpoint: writes the checkpoint file, and best_model.pth with the
\* new best_val_loss if the monitored loss is below the old one.
SaveCheckpoint(t, epoch, is_final) ==
    [t EXCEPT !.saved = IF is_final THEN @ ELSE @ \cup {epoch + 1},
              !.final_saved = @ \/ is_final,
              !.best_val_loss = Min(@, MonitoredLoss(t))]

\* _check_early_stopping: the counter after the comparison with best_val_loss
CheckEarlyStopping(t, val_loss) ==
    [t EXCEPT !.patience_counter =
                  IF val_loss < t.best_val_loss - t.training_config.min_delta
                  THEN 0 ELSE @ + 1]

\* everything but the trainer
TrainerFrame == UNCHANGED <<render, exporter>>

\* train() is called and enters its try block.
StartTrain ==
    /\ trainer.pc = "idle"
    /\ trainer' = [trainer EXCEPT !.pc = "for"]
    /\ TrainerFrame

\* for epoch in range(max_epochs): the next epoch, or the end of the loop
NextEpoch ==
    /\ trainer.pc = "for"
    /\ trainer' = IF trainer.e < trainer.training_config.max_epochs
                  THEN [trainer EXCEPT !.epoch = trainer.e, !.pc = "train"]
                  ELSE [trainer EXCEPT !.pc = "finally"]
    /\ TrainerFrame

\* train_metrics = self._train_epoch()
TrainEpoch ==
    /\ trainer.pc = "train"
    /\ \E loss \in Losses :
          trainer' = [trainer EXCEPT
                         !.train_metrics = Metrics(loss),
                         !.losses = IF trainer.training_config.val_loader
                                    THEN @ ELSE Append(@, loss),
                         !.pc = "validate"]
    /\ TrainerFrame

\* val_metrics = self._validate_epoch() if self.val_loader else {}
ValidateEpoch ==
    /\ trainer.pc = "validate"
    /\ \E loss \in Losses :
          trainer' = IF trainer.training_config.val_loader
                     THEN [trainer EXCEPT !.val_metrics = Metrics(loss),
                                          !.losses = Append(@, loss),
                                          !.pc = "checkpoint"]
                     ELSE [trainer EXCEPT !.val_metrics = NoMetrics,
                                          !.pc = "checkpoint"]
    /\ TrainerFrame

\* the scheduler step, the epoch log and the periodic checkpoint
EpochCheckpoint ==
    /\ trainer.pc = "checkpoint"
    /\ trainer' =
          LET t == [trainer EXCEPT !.pc = "early"]
          IN  IF (trainer.epoch + 1) % trainer.training_config.save_frequency = 0
              THEN SaveCheckpoint(t, trainer.epoch, FALSE)
              ELSE t
    /\ TrainerFrame

\* the early-stopping test that ends the loop body: break, or the next epoch
EarlyStopping ==
    /\ trainer.pc = "early"
    /\ trainer' =
          IF trainer.training_config.use_early_stopping
          THEN LET t == CheckEarlyStopping(trainer, MonitoredLoss(trainer))
               IN  IF t.patience_counter >= t.training_config.patience
                   THEN [t EXCEPT !.stopped_early = TRUE, !.pc = "finally"]
                   ELSE [t EXCEPT !.e = @ + 1, !.pc = "for"]
          ELSE [trainer EXCEPT !.e = @ + 1, !.pc = "for"]
    /\ TrainerFrame

\* KeyboardInterrupt at any statement inside the try block: the except
\* clause prints and falls through to finally.
Interrupt ==
    /\ trainer.pc \in {"for", "train", "validate", "checkpoint", "early"}
    /\ trainer' = [trainer EXCEPT !.interrupted = TRUE, !.pc = "finally"]
    /\ TrainerFrame

\* The finally block and the return.  Reading train_metrics or val_metrics
\* before any assignment raises UnboundLocalError while the arguments of
\* _save_checkpoint are evaluated: nothing is saved, the writer stays open
\* and the exception leaves train().
Finally ==
    /\ trainer.pc = "finally"
    /\ trainer' =
          IF ~trainer.train_metrics.bound \/ ~trainer.val_metrics.bound
          THEN [trainer EXCEPT !.raised = TRUE, !.pc = "done"]
          ELSE [SaveCheckpoint(trainer, trainer.epoch, TRUE) EXCEPT
                    !.writer_closed = TRUE, !.returned = TRUE, !.pc = "done"]
    /\ TrainerFrame

\* A trainer constructed from any configuration, around a model at rest.
InitTrainer ==
    /\ kind \in Kinds
    /\ training = TRUE
    /\ call = NoCall
    /\ again = NoCall
    /\ modelConfig = DefaultModelConfig
    /\ built = BuildModel(kind, modelConfig)
    /\ encoder = NoEncoder
    /\ whiteBg = FALSE
    /\ bgColor = White
    /\ bounds = DefaultBounds
    /\ sigmaField = [c \in Cells |-> 0]
    /\ colorField = [c \in Cells |-> White]
    /\ trainer \in {NerfTrainerInit(cfg) : cfg \in TrainingConfigs}
    /\ exporter = NoExporter

NextTrainer ==
    \/ StartTrain \/ NextEpoch \/ TrainEpoch \/ ValidateEpoch
    \/ EpochCheckpoint \/ EarlyStopping \/ Interrupt \/ Finally

\* One train() call of a trainer.
SpecTrainer == InitTrainer /\ [][NextTrainer]_vars

\* ----------------------------------------------------------------- exporter
MaxPlatforms == 3

\* the platform names create_deployment_package dispatches on
KnownPlatforms == {"ios", "web", "onnx", "tensorrt", "openvino", "tflite"}
\* names with a path separator: the directory output_dir / name has a parent
\* that does not exist
NestedNames == {"edge/tpu"}
\* names a caller passes: known ones, an unknown one, a nested unknown one
PlatformNames == {"onnx", "tensorrt", "android"} \cup NestedNames
PlatformLists == UNION {[1..n -> PlatformNames] : n \in 0..MaxPlatforms}

\* Strings are sequences of pieces.  The value of a successful export: the
\* path the export function returns.
ExportPath(platform) ==
    IF platform = "ios" THEN <<platform, "/model.mlpackage">>
    ELSE IF platform = "web" THEN <<platform>>
    ELSE IF platform = "onnx" THEN <<platform, "/model.onnx">>
    ELSE IF platform = "tensorrt" THEN <<platform, "/model.trt">>
    ELSE IF platform = "openvino" THEN <<platform, "/nerf_model.xml">>
    ELSE <<platform, "/model.tflite">>

\* f"ERROR: {str(e)}"
ErrorString(e) == <<"ERROR: ", e>>

\* platform_dir.mkdir(exist_ok=True), without parents=True: FileNotFoundError
\* if the parent is missing, FileExistsError if a regular file has the name.
MkdirRaises(platform, files) == platform \in NestedNames \/ platform \in files

\* A ModelExporter before the call; files are the regular files that lie in
\* the output directory.
ModelExporterInit(files) ==
    [pc |-> "idle", files |-> files, target_platforms |-> << >>, i |-> 1,
     exported_paths |-> << >>, attempted |-> {}, dirs |-> {},
     raised |-> FALSE, returned |-> FALSE]

ExporterFrame == UNCHANGED <<render, trainer>>

\* create_deployment_package is called: output directory, example input
CreateDeploymentPackage ==
    /\ exporter.pc = "idle"
    /\ \E platforms \in PlatformLists :
          exporter' = [exporter EXCEPT !.target_platforms = platforms,
                                       !.pc = "for"]
    /\ ExporterFrame

\* One iteration of the loop over target_platforms.  The directory is made
\* before the try block, so an error of mkdir leaves the function; inside the
\* try block an unknown name is skipped with a warning and every Exception
\* of an export function becomes an 'ERROR: ' entry.
ExportPlatform ==
    /\ exporter.pc = "for"
    /\ exporter.i <= Len(exporter.target_platforms)
    /\ LET platform == exporter.target_platforms[exporter.i]
           next == [exporter EXCEPT !.i = @ + 1,
                                    !.dirs = @ \cup {platform}]
       IN  IF MkdirRaises(platform, exporter.files)
           THEN exporter' = [exporter EXCEPT !.raised = TRUE, !.pc = "done"]
           ELSE IF platform \notin KnownPlatforms
           THEN exporter' = next
           ELSE \E ok \in BOOLEAN :
                   exporter' =
                       [next EXCEPT
                           !.attempted = @ \cup {platform},
                           !.exported_paths =
                               (platform :> (IF ok THEN ExportPath(platform)
                                             ELSE ErrorString("failed"))) @@ @]
    /\ ExporterFrame

\* After the loop: the summary file is written and the dictionary returned.
WriteSummary ==
    /\ exporter.pc = "for"
    /\ exporter.i > Len(exporter.target_platforms)
    /\ exporter' = [exporter EXCEPT !.returned = TRUE, !.pc = "done"]
    /\ ExporterFrame

\* An exporter, its output directory empty or holding a file named onnx.
InitExporter ==
    /\ kind \in Kinds
    /\ training = FALSE
    /\ call = NoCall
    /\ again = NoCall
    /\ modelConfig = DefaultModelConfig
    /\ built = BuildModel(kind, modelConfig)
    /\ encoder = NoEncoder
    /\ whiteBg = FALSE
    /\ bgColor = White
    /\ bounds = DefaultBounds
    /\ sigmaField = [c \in Cells |-> 0]
    /\ colorField = [c \in Cells |-> White]
    /\ trainer = NoTrainer
    /\ exporter \in {ModelExporterInit(files) : files \in {{}, {"onnx"}}}

NextExporter == CreateDeploymentPackage \/ ExportPlatform \/ WriteSummary

\* One create_deployment_package call.
SpecExporter == InitExporter /\ [][NextExporter]_vars

\* ================================================================== claims
IsForward == call.op = "forward"
Rendered == IsForward /\ ~call.raised

RECURSIVE ProductBefore(_, _)
\* the product of (1 - alpha[j]) over j < i, 1 for the first sample
ProductBefore(alpha, i) ==
    IF i = 1 THEN ONE ELSE Mul(ProductBefore(alpha, i - 1), ONE - alpha[i - 1])

\* the early-termination tolerance, 1e-3
Tolerance == ONE \div 1000

\* C1: in InstantNGP.volume_render_optimized the transmittance applied to
\* sample i is the product of (1 - alpha_j) over j < i and weight_i is
\* alpha_i times it, up to the early-termination tolerance; a sample behind a
\* fully opaque one gets weight 0.
C1_WeightsUseTransmittance ==
    (Rendered /\ kind = "ngp") =>
        \A i \in 1..Len(call.weights) :
            /\ Abs(call.transmittance[i] - ProductBefore(call.alpha, i)) <= Tolerance
            /\ Abs(call.weights[i]
                   - Mul(call.alpha[i], ProductBefore(call.alpha, i))) <= Tolerance
            /\ (\E j \in 1..(i - 1) : call.alpha[j] = ONE) => call.weights[i] = 0

\* C2: with densities >= 0 and colours in [0,1]^3, the RGBA returned by forward
\* has its accumulated alpha and every RGB channel in [0,1].
C2_RgbaInUnitRange ==
    (/\ Rendered
     /\ \A i \in 1..call.n : call.densities[i] >= 0
     /\ \A i \in 1..call.n : \A c \in 1..3 : call.colors[i][c] \in 0..ONE)
    => /\ call.acc \in 0..ONE
       /\ \A c \in 1..3 : call.rgb[c] \in 0..ONE

\* C3: the rendered RGB is sum_i weight_i * color_i + (1 - accumulated alpha)
\* times the scene's configured background colour; with all densities zero
\* it is that colour exactly and the accumulated alpha is 0.
C3_CompositesConfiguredBackground ==
    Rendered =>
        /\ \A c \in 1..3 :
              call.rgb[c] = Accumulate(call.weights, call.colors)[c]
                            + Mul(ONE - call.acc, bgColor[c])
        /\ (\A i \in 1..call.n : call.densities[i] = 0)
              => (call.rgb = bgColor /\ call.acc = 0)

\* C5: for every forward call with near < far and num_samples >= 2, in
\* training mode and in evaluation mode, the sample distances handed to the
\* integrator are strictly ascending.
C5_DistancesAscending ==
    (IsForward /\ call.near < call.far /\ call.n >= 2) =>
        \A i \in 1..(call.n - 1) : call.t[i] < call.t[i + 1]

\* A jittered call in which a sample with the largest draw is followed by one
\* with the smallest.
C5_Witness ==
    /\ IsForward /\ call.train /\ call.near < call.far /\ call.n >= 3
    /\ \E i \in 1..(call.n - 1) :
          /\ call.r[i] = <<7, 8>> /\ call.r[i + 1] = <<0, 1>>
          /\ call.t[i] > Linspace(call.near, call.far, call.n)[i]
    /\ \A i \in 1..(call.n - 1) : call.t[i] < call.t[i + 1]

IsSample == call.op = "hsample"

\* C4: the weights _compute_sample_weights computes inside hierarchical_sample
\* equal the weights the model's own integrator (volume_render for NerfModel,
\* volume_render_optimized for InstantNGP) computes for the same densities and
\* distances.
C4_SamplerUsesIntegratorWeights ==
    IsSample =>
        LET out == Integrate(kind, [i \in 1..call.n |-> White],
                             call.densities, call.t, FALSE)
        IN  out.raised \/ call.weights = out.weights

\* C6: for num_coarse = C >= 1 and num_fine = F >= 0, hierarchical_sample
\* completes without raising, returns C coarse and F fine positions, and every
\* bucket index _sample_pdf looks a coarse distance up with (below and above)
\* lies in [0, C-1].
C6_SamplePdfIndicesInRange ==
    (IsSample /\ call.n >= 1 /\ call.nf >= 0) =>
        /\ ~call.raised
        /\ Len(call.coarse) = call.n
        /\ Len(call.fine) = call.nf
        /\ \A j \in 1..call.nf : /\ call.below[j] \in 0..(call.n - 1)
                                 /\ call.above[j] \in 0..(call.n - 1)

\* C7: with a fine sample count of 0, hierarchical_sample raises no error, its
\* coarse output is the stratified sampler's sample set in the same order with
\* the same values, and the fine set is empty.
C7_NoFineSamplesKeepsCoarse ==
    (IsSample /\ call.nf = 0) =>
        /\ ~call.raised
        /\ call.fine = << >>
        /\ Len(call.coarse) = call.n
        /\ \A i \in 1..call.n :
              call.coarse[i] =
                  PointAt(call.o, Normalize(call.d),
                          CoarseSampling(kind, call.near, call.far, call.n,
                                         call.train, call.r)[i])

\* A call without fine samples, of several jittered coarse samples, from an
\* origin off the world origin.
C7_Witness ==
    /\ IsSample /\ call.nf = 0 /\ call.n >= 2 /\ call.train
    /\ call.o # <<0, 0, 0>>
    /\ \E i \in 1..call.n : call.r[i] # <<0, 1>>
    /\ ~call.raised /\ Len(call.coarse) = call.n /\ call.fine = << >>

\* C8: every coarse sample position hierarchical_sample returns lies inside
\* the scene's bounding box, also for a ray whose origin is outside it.
C8_CoarseSamplesInsideBounds ==
    (IsSample /\ ~call.raised) =>
        \A i \in 1..Len(call.coarse) : \A c \in 1..3 :
            call.coarse[i][c] >= bounds[1] /\ call.coarse[i][c] <= bounds[2]

\* C9, as stated: in evaluation mode the coarse sampler returns the midpoints
\* of S_c equal-width bins of [near, far]: sample i (0-based) is at
\* near + (i + 1/2) * (far - near) / S_c.
C9_EvalBinMidpoints ==
    (IsSample /\ ~call.train) =>
        \A i \in 1..call.n :
            2 * call.n * (call.t[i] - call.near)
                = (2 * i - 1) * (call.far - call.near)

\* C9, amended: in evaluation mode the coarse sampler returns S_c equally
\* spaced distances that include both ends of [near, far]: sample i (0-based)
\* is at near + i * (far - near) / (S_c - 1) for S_c >= 2, and the single
\* sample of S_c = 1 is at near; the same on every call.
C9_EvalEndpointSpacing ==
    (IsSample /\ ~call.train) =>
        \A i \in 1..call.n :
            IF call.n = 1 THEN call.t[i] = call.near
            ELSE (call.n - 1) * (call.t[i] - call.near)
                     = (i - 1) * (call.far - call.near)

\* An evaluation-mode call of at least three coarse samples: the first at
\* near, the last at far.
C9_Witness ==
    /\ IsSample /\ ~call.train /\ call.n >= 3 /\ call.near < call.far
    /\ call.t[1] = call.near /\ call.t[call.n] = call.far
    /\ call.t[2] > call.near /\ call.t[2] < call.far

\* C10: in evaluation mode two hierarchical_sample calls with identical
\* arguments and parameters return identical coarse and identical fine sample
\* sets.
C10_EvalSamplingRepeats ==
    (/\ IsSample /\ again # NoCall
     /\ ~call.train /\ ~again.train
     /\ ~call.raised /\ ~again.raised)
    => (again.coarse = call.coarse /\ again.fine = call.fine)

\* C11: in evaluation mode two forward calls on the same model with the same
\* ray origin and direction (and near, far, sample count), the parameters
\* unchanged between them, return the same output: the same RGB and the same
\* accumulated alpha, or the same failure.
C11_EvalForwardRepeats ==
    (/\ IsForward /\ again # NoCall
     /\ ~call.train /\ ~again.train)
    => /\ again.raised = call.raised
       /\ again.rgb = call.rgb
       /\ again.acc = call.acc

\* Two evaluation-mode calls at different states of the random generator,
\* through a medium that is neither empty nor uniform, with the same result.
C11_Witness ==
    /\ IsForward /\ again # NoCall /\ ~call.train /\ ~again.train
    /\ call.n >= 2 /\ ~call.raised
    /\ \E i \in 1..call.n : again.r[i] # call.r[i]
    /\ \E i \in 1..call.n : call.densities[i] # 0
    /\ call.acc > 0
    /\ again.rgb = call.rgb /\ again.acc = call.acc

\* A call record holds what the sampling step (t) and, for forward, the
\* integration step computed: a call that has one has executed them.
Executed == call.op \in {"forward", "hsample"}

\* C12: no sampling or integration step of forward or hierarchical_sample
\* executes with a sample count <= 0 or with near >= far: such arguments are
\* rejected before any step runs.
C12_BadArgumentsNeverExecute ==
    Executed => (call.n >= 1 /\ call.near < call.far)

\* C14: the hash table of an InstantNGP model has as many entries as the
\* hashmap_size of the ModelConfig it was built from.
C14_TableSizeIsConfigured ==
    kind = "ngp" => built.hashmap_size = modelConfig.hashmap_size

\* C20: whatever the use_viewdirs argument of a forward call (of two samples
\* or more), the colour network receives an input of the width its first
\* layer was built with, and the call does not fail.
C20_ColorInputWidthFixed ==
    (IsForward /\ "use_viewdirs" \in DOMAIN call /\ call.n >= 2) =>
        /\ call.color_input = built.color_input_dim
        /\ ~call.raised

IsHashEncoder == encoder # NoEncoder /\ encoder.class = "hash"
IsEncode == call.op = "encode"

\* C13: constructing the hash encoder with a level count below 1 is rejected
\* with an error by the constructor.
C13_LevelCountRejectedAtConstruction ==
    (IsHashEncoder /\ encoder.num_levels < 1) => encoder.raised

IsPowerOfTwo(n) == \E k \in 0..HashBits : n = Pow2(k)

\* C15: every hash encoder the constructor returns has a table size that is
\* a power of two and per-level resolutions that are non-decreasing in the
\* level index and at most max_resolution.
C15_ResolutionsNonDecreasingAndBounded ==
    (IsHashEncoder /\ ~encoder.raised) =>
        /\ IsPowerOfTwo(encoder.hashmap_size)
        /\ \A l \in 1..Len(encoder.resolutions) :
              encoder.resolutions[l] <= encoder.max_resolution
        /\ \A l \in 1..(Len(encoder.resolutions) - 1) :
              encoder.resolutions[l] <= encoder.resolutions[l + 1]

\* the lattice coordinates [0, N-1]^3 of a level of resolution N
Lattice(N) == [1..3 -> 0..(N - 1)]

\* C16: at every level whose resolution N has N^3 <= T, T the table size, no
\* two distinct lattice coordinates of [0, N-1]^3 hash to the same table
\* index.
C16_HashInjectiveOnSmallLevels ==
    (IsHashEncoder /\ ~encoder.raised) =>
        \A l \in 1..Len(encoder.resolutions) :
            LET N == encoder.resolutions[l]
                T == encoder.hashmap_size
            IN  N * N * N <= T =>
                    \A c1, c2 \in Lattice(N) :
                        c1 # c2 => HashPosition(c1, N, T) # HashPosition(c2, N, T)

\* the weight of the corner at offset off: per axis, w for offset 1 and
\* 1 - w for offset 0, multiplied
CornerWeight(weights, off) ==
    LET factor(a) == IF off[a] = 1 THEN weights[a] ELSE WeightOne - weights[a]
    IN  factor(1) * factor(2) * factor(3)

\* C17: at every level the encoder returns the sum over the eight corners of
\* the corner's table feature times the product of the per-axis factors that
\* match the corner's offset; at a position exactly on a lattice corner that
\* is the table feature of that corner, unmodified.
C17_CornerFeatureUnmodified ==
    (IsEncode /\ ~call.raised) =>
        \A l \in 1..Len(call.levels) :
            LET lv == call.levels[l]
                at == encoder.hash_table[
                          HashPosition(lv.grid_pos, lv.resolution,
                                       encoder.hashmap_size)]
            IN  \A f \in 1..2 :
                    /\ lv.interpolated[f] =
                           Sum([n \in 1..8 |->
                                   lv.corner_features[n][f]
                                       * CornerWeight(lv.weights, CornerOffsets[n])])
                    /\ lv.weights = <<0, 0, 0>> =>
                           lv.interpolated[f] = Pow(WeightOne, 3) * at[f]

\* An encode call at which one level is exactly on a lattice corner, off the
\* lattice's faces in x, whose eight cell corners do not all hold the same
\* feature, and another level is between corners on the x axis only.
C17_Witness ==
    /\ IsEncode /\ ~call.raised
    /\ \E l \in 1..Len(call.levels) :
          LET lv == call.levels[l]
          IN  /\ lv.weights = <<0, 0, 0>>
              /\ lv.grid_pos[1] > 0 /\ lv.grid_pos[1] < lv.resolution - 1
              /\ \E n \in 2..8 : lv.corner_features[n] # lv.corner_features[1]
              /\ lv.interpolated = [f \in 1..2 |-> Pow(WeightOne, 3)
                                                    * lv.corner_features[1][f]]
    /\ \E l \in 1..Len(call.levels) :
          LET lv == call.levels[l]
          IN  /\ lv.weights[1] > 0 /\ lv.weights[2] = 0 /\ lv.weights[3] = 0
              /\ lv.corner_features[5] # lv.corner_features[2]

IsShEncode == call.op = "sh"

\* C18: for every degree D >= 0 the direction encoder is constructed with, it
\* returns a feature vector of (D+1)^2 components, its advertised output_dim.
C18_DirectionFeatureCount ==
    (IsShEncode /\ encoder.degree >= 0) =>
        /\ Len(call.features) = (encoder.degree + 1) * (encoder.degree + 1)
        /\ Len(call.features) = encoder.output_dim

SameFeatures(a, b) ==
    /\ Len(a) = Len(b)
    /\ \A f \in 1..Len(a) : Abs(a[f] - b[f]) <= Tolerance

\* C19, as stated: for any direction vector v and any scalar k > 0,
\* encode(k * v) equals encode(v) within tolerance.
C19_ScaleInvariant ==
    (IsShEncode /\ again # NoCall) => SameFeatures(call.features, again.features)

\* C19, amended: for any direction vector v and any scalar k > 0 such that v
\* and k * v are both of length at least 1e-12, the eps of F.normalize,
\* encode(k * v) equals encode(v) within tolerance.
C19_ScaleInvariantAboveEps ==
    (/\ IsShEncode /\ again # NoCall
     /\ Norm(call.v) >= EpsNorm /\ Norm(again.v) >= EpsNorm)
    => SameFeatures(call.features, again.features)

\* A direction off the axes, of length eps or more, encoded to degree 2 or
\* more, and again eight times as long, with the same features.
C19_Witness ==
    /\ IsShEncode /\ again # NoCall
    /\ Norm(call.v) >= EpsNorm /\ encoder.degree >= 2
    /\ Cardinality({c \in 1..3 : call.v[c] # 0}) >= 2
    /\ again.v = [c \in 1..3 |-> 8 * call.v[c]]
    /\ \E f \in 2..Len(call.features) : call.features[f] # 0
    /\ SameFeatures(call.features, again.features)

\* a transmittance sequence that starts at 1 and never increases
StartsAtOneNonIncreasing(T) ==
    /\ Len(T) >= 1 => T[1] = ONE
    /\ \A i \in 1..(Len(T) - 1) : T[i + 1] <= T[i]

Ascending(t) == \A i \in 1..(Len(t) - 1) : t[i] < t[i + 1]

\* C24: for non-negative densities and ascending distances, the transmittance
\* sequence of the model's integrator (volume_render, volume_render_optimized)
\* and the one _compute_sample_weights computes on the same densities and
\* distances start at 1 and are non-increasing along the sample index.
C24_TransmittanceNonIncreasing ==
    (/\ Rendered /\ Ascending(call.t)
     /\ \A i \in 1..call.n : call.densities[i] >= 0)
    => LET alpha == Alphas(call.densities, Dists(call.t))
       IN  /\ StartsAtOneNonIncreasing(call.transmittance)
           /\ StartsAtOneNonIncreasing([i \in 1..Len(alpha) |-> CumProd(alpha, i)])

\* A NerfModel render of three samples or more through a medium that absorbs
\* at the first two: the transmittance falls twice.
C24_Witness ==
    /\ Rendered /\ kind = "nerf" /\ call.n >= 3 /\ Ascending(call.t)
    /\ call.densities[1] > 0 /\ call.densities[2] > 0
    /\ call.transmittance[1] = ONE
    /\ call.transmittance[2] < call.transmittance[1]
    /\ call.transmittance[3] < call.transmittance[2]

\* C25: for every sample count N >= 1, N = 1 included, the integrator builds N
\* interval deltas, the last of them the sentinel 1e10, so alpha and weights
\* have N entries, and a single sample of positive density gets a non-zero
\* weight.
C25_OneDeltaPerSample ==
    (IsForward /\ call.n >= 1 /\ call.near < call.far) =>
        /\ Len(Dists(call.t)) = call.n
        /\ Dists(call.t)[call.n] = BigDist
        /\ ~call.raised
        /\ Len(call.alpha) = call.n
        /\ Len(call.weights) = call.n
        /\ (call.n = 1 /\ call.densities[1] > 0) => call.weights[1] > 0

\* C26: for near < far and any sample count S >= 1, in training mode as in
\* evaluation mode, every coarse sample distance t has near <= t <= far.
C26_DistancesWithinNearFar ==
    (IsForward /\ call.near < call.far /\ call.n >= 1) =>
        \A i \in 1..call.n : call.near <= call.t[i] /\ call.t[i] <= call.far

RECURSIVE IsSubsequence(_, _)
\* the entries of a occur in b in the order of a
IsSubsequence(a, b) ==
    IF a = <<>> THEN TRUE
    ELSE IF b = <<>> THEN FALSE
    ELSE IF Head(a) = Head(b) THEN IsSubsequence(Tail(a), Tail(b))
    ELSE IsSubsequence(a, Tail(b))

\* the stages of the two-pass pipeline
TwoPassStages ==
    <<"sample_coarse", "encode_position", "decode_density",
      "importance_weights", "sample_fine", "merge_sort",
      "encode_position", "decode_density", "decode_color", "integrate">>

\* C21: every forward call runs coarse sampling, encoding and density decode
\* of the coarse samples, importance weights, fine sampling, merge and sort,
\* full encode and decode, and the final integration, in this order, and the
\* final integration runs over the merged set, which contains the coarse
\* samples and is sorted.
C21_TwoPassPipeline ==
    IsForward =>
        /\ IsSubsequence(TwoPassStages, call.stages)
        /\ call.stages[Len(call.stages)] = "integrate"
        /\ Len(call.integrated) >= call.n

\* C22: in evaluation mode, with the parameters, near, far and the sample
\* count fixed, the RGBA value forward returns for a ray is the same in every
\* batch that holds the ray, whatever the other rays and whatever its place
\* in the batch; and the call fails for one batch exactly if it fails for
\* the other.
C22_RaysIndependent ==
    (call.op = "batch" /\ again # NoCall /\ ~call.train /\ ~again.train) =>
        /\ again.raised = call.raised
        /\ \A i \in 1..Len(call.rays), j \in 1..Len(again.rays) :
              call.rays[i] = again.rays[j] => call.rgba[i] = again.rgba[j]

\* Two batches of two rays that share one ray, at a different place and next
\* to a different neighbour whose result is another; the shared ray crosses
\* both cells and gets the same value in both batches.
C22_Witness ==
    /\ call.op = "batch" /\ again # NoCall /\ ~call.raised
    /\ Len(call.rays) = 2 /\ Len(again.rays) = 2 /\ call.n >= 2
    /\ call.rays[1] = again.rays[2]
    /\ call.rays[2] # again.rays[1]
    /\ call.rays[2] # call.rays[1] /\ again.rays[1] # call.rays[1]
    /\ call.rgba[2] # call.rgba[1] /\ again.rgba[1] # call.rgba[1]
    /\ call.densities[1][1] # call.densities[1][2]
    /\ call.rgba[1][2] > 0
    /\ call.rgba[1] = again.rgba[2]

\* corner n of the cell of a level, after the clamp of _hash_position
ClampedCorner(lv, n) ==
    [a \in 1..3 |->
        Clamp(lv.grid_pos[a] + CornerOffsets[n][a], 0, lv.resolution - 1)]

\* every corner of every level of the call is clamped into the lattice and
\* looked up inside the table
LookupsInRange ==
    \A l \in 1..Len(call.levels) : \A n \in 1..8 :
        LET lv == call.levels[l]
        IN  /\ \A a \in 1..3 : /\ 0 <= ClampedCorner(lv, n)[a]
                               /\ ClampedCorner(lv, n)[a] <= lv.resolution - 1
            /\ lv.hash_idx[n] =
                   HashPosition(ClampedCorner(lv, n), lv.resolution,
                                encoder.hashmap_size)
            /\ 0 <= lv.hash_idx[n] /\ lv.hash_idx[n] <= encoder.hashmap_size - 1
            /\ lv.hash_idx[n] \in DOMAIN encoder.hash_table

\* C27: for every position, inside or outside the scene bounds, every level
\* and each of the 8 corners, the clamped corner coordinate lies in
\* [0, N_l - 1] on each axis and the hash index in [0, T - 1], so the lookup
\* is in range and the encode call does not raise, colliding corners
\* included.
C27_ClampedNeverRejected ==
    IsEncode => /\ LookupsInRange
                /\ ~call.raised

\* two encode calls at one position return the same features
EncodeRepeats ==
    (IsEncode /\ again # NoCall /\ again.op = "encode" /\ again.p = call.p) =>
        /\ again.raised = call.raised
        /\ \A l \in 1..Len(call.levels) :
              again.levels[l].interpolated = call.levels[l].interpolated

C28_FinalCheckpointAlways ==
    trainer.pc = "done" =>
        /\ trainer.final_saved
        /\ trainer.writer_closed
        /\ trainer.returned /\ ~trainer.raised

RECURSIVE MinOf(_, _)
\* the lowest of the first k entries of a sequence of losses
MinOf(s, k) == IF k = 0 THEN Infinity ELSE Min(s[k], MinOf(s, k - 1))

\* epoch j failed to improve by more than min_delta on the lowest monitored
\* loss of all earlier epochs
FailedToImprove(t, j) ==
    ~(t.losses[j] < MinOf(t.losses, j - 1) - t.training_config.min_delta)

\* epoch k ends a run of patience epochs that all failed to improve
PatienceExhausted(t, k) ==
    /\ k >= t.training_config.patience
    /\ \A j \in (k - t.training_config.patience + 1)..k : FailedToImprove(t, j)

\* C29: with early stopping enabled, train() stops at the first epoch that
\* ends a run of patience consecutive epochs without an improvement by more
\* than min_delta on the lowest monitored loss of all earlier epochs, and at
\* no other; and after every completed epoch best_val_loss is the lowest
\* monitored loss of the epochs completed so far.
C29_StopsAtFirstExhaustedEpoch ==
    (trainer.pc \in {"for", "finally", "done"}
     /\ trainer.training_config.use_early_stopping /\ ~trainer.interrupted)
    => LET k == Len(trainer.losses)
       IN  /\ trainer.stopped_early => PatienceExhausted(trainer, k)
           /\ ~trainer.stopped_early =>
                  \A j \in 1..k : ~PatienceExhausted(trainer, j)
           /\ trainer.pc = "for" =>
                  trainer.best_val_loss = MinOf(trainer.losses, k)

\* the known platforms of the list
KnownInList(platforms) ==
    {platforms[j] : j \in 1..Len(platforms)} \cap KnownPlatforms

\* C30: for any list of target platforms create_deployment_package returns a
\* dictionary with exactly one entry per known platform of the list, the
\* export path or a string starting with 'ERROR: ', and none for an unknown
\* name, and the export of every known platform of the list was attempted,
\* whatever failed before it.
C30_FailuresIsolatedPerPlatform ==
    exporter.pc = "done" =>
        /\ exporter.returned /\ ~exporter.raised
        /\ DOMAIN exporter.exported_paths = KnownInList(exporter.target_platforms)
        /\ exporter.attempted = KnownInList(exporter.target_platforms)
        /\ \A p \in DOMAIN exporter.exported_paths :
              \/ exporter.exported_paths[p] = ExportPath(p)
              \/ exporter.exported_paths[p][1] = "ERROR: "

====
